---- MODULE Spec2Model ----
(***************************************************************************)
(* Model of the chat relay backend (FastAPI + SQLAlchemy AsyncSession):    *)
(* sessions, messages and CLI profiles kept in the database, the request   *)
(* handlers of backend/app/api/v1/endpoints/chat.py and cli.py stepped at  *)
(* their await points, the detached n8n trigger task, and the callback     *)
(* resolver's content extraction.                                          *)
(*                                                                         *)
(* Text is a sequence of tokens (strings); the tokens " " and "\n" are     *)
(* whitespace, "{" and "}" are braces, RespMember / OtherMember stand for  *)
(* the JSON object members  "response": "42"  and  "k": "v".               *)
(* A JSON / Python value is a record [t, s, n, m]: t the type, s the text  *)
(* of a string, n the number (1/0 for a boolean), m the members of an      *)
(* object or the items of an array (items have key "").                    *)
(***************************************************************************)
EXTENDS Integers, Sequences, FiniteSets, TLC

\* ---------------------------------------------------------------- bounds
MaxLen == 4        \* longest text, in tokens, enumerated as an "output" value
MaxSessions == 2   \* sessions ever created
MaxMessages == 4   \* messages ever created
MaxCLIs == 1       \* CLI profiles ever created
MaxReq == 2        \* requests handled concurrently

\* ---------------------------------------------------------------- text
RespMember == "\"response\": \"42\""
OtherMember == "\"k\": \"v\""
Tok == {"{", "}", RespMember, OtherMember, " ", "\n", "I will", "I'll", "Hello"}

IsWs(c) == c \in {" ", "\n"}

TextsUpTo(n) == UNION {[1..k -> Tok] : k \in 0..n}

RECURSIVE LStrip(_)
LStrip(t) == IF t # <<>> /\ IsWs(Head(t)) THEN LStrip(Tail(t)) ELSE t

RECURSIVE RStrip(_)
RStrip(t) == IF t # <<>> /\ IsWs(t[Len(t)]) THEN RStrip(SubSeq(t, 1, Len(t) - 1)) ELSE t

\* str.strip()
Strip(t) == RStrip(LStrip(t))

\* str.split('\n'): the lines of t, at least one
RECURSIVE SplitLines(_)
SplitLines(t) ==
    IF \A i \in 1..Len(t) : t[i] # "\n" THEN <<t>>
    ELSE LET i == CHOOSE j \in 1..Len(t) : t[j] = "\n" /\ \A k \in 1..(j - 1) : t[k] # "\n"
         IN  <<SubSeq(t, 1, i - 1)>> \o SplitLines(SubSeq(t, i + 1, Len(t)))

\* "\n".join(lines)
RECURSIVE JoinLines(_)
JoinLines(ls) ==
    IF ls = <<>> THEN <<>>
    ELSE IF Len(ls) = 1 THEN ls[1]
    ELSE ls[1] \o <<"\n">> \o JoinLines(Tail(ls))

\* line.strip().startswith("I will") or line.strip().startswith("I'll")
IsIntentLine(line) ==
    LET s == Strip(line) IN s # <<>> /\ s[1] \in {"I will", "I'll"}

\* ---------------------------------------------------------------- values
JNull == [t |-> "null", s |-> <<>>, n |-> 0, m |-> <<>>]
JStr(x) == [t |-> "str", s |-> x, n |-> 0, m |-> <<>>]
JNum(k) == [t |-> "num", s |-> <<>>, n |-> k, m |-> <<>>]
JBool(b) == [t |-> "bool", s |-> <<>>, n |-> IF b THEN 1 ELSE 0, m |-> <<>>]
JObj(ms) == [t |-> "obj", s |-> <<>>, n |-> 0, m |-> ms]
JArr(items) == [t |-> "arr", s |-> <<>>, n |-> 0, m |-> [i \in 1..Len(items) |-> [k |-> "", v |-> items[i]]]]
Member(k, v) == [k |-> k, v |-> v]

\* Python truthiness: bool(v)
Truthy(v) ==
    CASE v.t = "null" -> FALSE
      [] v.t = "str" -> v.s # <<>>
      [] v.t = "num" -> v.n # 0
      [] v.t = "bool" -> v.n = 1
      [] OTHER -> v.m # <<>>

HasKey(d, k) == \E i \in 1..Len(d.m) : d.m[i].k = k

\* dict.get(k): the value under k (the last member of that name), None when absent
Get(d, k) ==
    IF HasKey(d, k)
    THEN d.m[CHOOSE i \in 1..Len(d.m) : d.m[i].k = k /\ \A j \in (i + 1)..Len(d.m) : d.m[j].k # k].v
    ELSE JNull

\* The characters of a text inside a Python repr: the tokens joined, newline escaped
RECURSIVE Chars(_)
Chars(t) ==
    IF t = <<>> THEN ""
    ELSE (IF Head(t) = "\n" THEN "\\n" ELSE Head(t)) \o Chars(Tail(t))

\* repr(v) of a scalar, as one token
ScalarRepr(v) ==
    CASE v.t = "null" -> "None"
      [] v.t = "str" -> "'" \o Chars(v.s) \o "'"
      [] v.t = "num" -> ToString(v.n)
      [] v.t = "bool" -> (IF v.n = 1 THEN "True" ELSE "False")
      [] OTHER -> "?"

\* repr(v): a container is its brackets around its members' reprs
RECURSIVE Repr(_)
RECURSIVE ReprMembers(_, _)
ReprMembers(ms, isObj) ==
    IF ms = <<>> THEN <<>>
    ELSE (IF isObj THEN <<"'" \o Head(ms).k \o "': ">> ELSE <<>>)
         \o Repr(Head(ms).v)
         \o (IF Len(ms) > 1 THEN <<", ">> ELSE <<>>)
         \o ReprMembers(Tail(ms), isObj)
Repr(v) ==
    CASE v.t = "obj" -> <<"{">> \o ReprMembers(v.m, TRUE) \o <<"}">>
      [] v.t = "arr" -> <<"[">> \o ReprMembers(v.m, FALSE) \o <<"]">>
      [] OTHER -> <<ScalarRepr(v)>>

\* str(v): a string is itself, anything else its repr
PyStr(v) == IF v.t = "str" THEN v.s ELSE Repr(v)

\* ---------------------------------------------------------------- resolver
\* re.search(r'\{.*\}', text, re.DOTALL): from the first "{" to the last "}" after it
HasBraceSpan(t) ==
    \E i \in 1..Len(t) : t[i] = "{" /\ \E j \in (i + 1)..Len(t) : t[j] = "}"

FirstOpen(t) == CHOOSE i \in 1..Len(t) : t[i] = "{" /\ \A k \in 1..(i - 1) : t[k] # "{"

LastClose(t) == CHOOSE j \in 1..Len(t) : t[j] = "}" /\ \A k \in (j + 1)..Len(t) : t[k] # "}"

FirstClose(t) == CHOOSE j \in (FirstOpen(t) + 1)..Len(t) : t[j] = "}" /\ \A k \in (FirstOpen(t) + 1)..(j - 1) : t[k] # "}"

BraceSpan_Shortest(t) == SubSeq(t, FirstOpen(t), FirstClose(t))

BraceSpan(t) == SubSeq(t, FirstOpen(t), LastClose(t))

NoWs(t) == SelectSeq(t, LAMBDA c : ~IsWs(c))

\* json.loads of a span "{" ... "}": an object of at most one member, else an error
JsonLoadsOk(span) ==
    LET inner == NoWs(SubSeq(span, 2, Len(span) - 1))
    IN  inner = <<>> \/ (Len(inner) = 1 /\ inner[1] \in {RespMember, OtherMember})

JsonLoads(span) ==
    LET inner == NoWs(SubSeq(span, 2, Len(span) - 1))
    IN  IF inner = <<>> THEN JObj(<<>>)
        ELSE IF inner[1] = RespMember THEN JObj(<<Member("response", JStr(<<"42">>))>>)
        ELSE JObj(<<Member("k", JStr(<<"v">>))>>)

\* the lines that do not restate an intention
FilterLines(cs) == SelectSeq(SplitLines(cs), LAMBDA line : ~IsIntentLine(line))

\* chat.py 173-192: the content stored for a truthy output_content
ResolveOutput(output_content) ==
    LET content_str == Strip(PyStr(output_content))
        matched == HasBraceSpan(content_str)
        parsed == matched /\ JsonLoadsOk(BraceSpan(content_str))
        extracted_json == IF parsed THEN JsonLoads(BraceSpan(content_str)) ELSE JNull
        final_content == Strip(JoinLines(FilterLines(content_str)))
    IN  IF Truthy(extracted_json) /\ extracted_json.t = "obj" /\ HasKey(extracted_json, "response")
        THEN PyStr(Get(extracted_json, "response"))
        ELSE IF final_content # <<>> THEN final_content ELSE content_str

\* chat.py 157: data.get("output") or data.get("text") or ...
RECURSIVE OrChain(_, _)
OrChain(data, keys) ==
    IF Len(keys) = 1 THEN Get(data, keys[1])
    ELSE IF Truthy(Get(data, keys[1])) THEN Get(data, keys[1])
    ELSE OrChain(data, Tail(keys))

OutputKeys_Swapped == <<"text", "output", "response", "content", "message">>

OutputKeys == <<"output", "text", "response", "content", "message">>

NoResponse == <<"No response from AI">>

Thinking == <<"Thinking...">>

\* chat.py 157, 170-195: the content stored for the normalised payload (a dict)
ResolveContent(data) ==
    LET output_content == OrChain(data, OutputKeys)
    IN  IF Truthy(output_content) THEN ResolveOutput(output_content)
        ELSE IF Truthy(data) THEN PyStr(data) ELSE NoResponse

\* chat.py 136-149: the payload of a request body. A body is [kind, v, raw]:
\* "json" (request.json() gave v), "text" (not JSON; raw is the decoded body),
\* "bytes" (not JSON and not decodable, so body.decode() raises).
ParseRaises(body) == body.kind = "bytes"

ParseBody(body) ==
    LET data == IF body.kind = "json" THEN body.v
                ELSE JObj(<<Member("output", JStr(body.raw))>>)
    IN  IF data.t = "arr" /\ Len(data.m) > 0 THEN data.m[1].v
        ELSE IF data.t = "arr" THEN JObj(<<>>)
        ELSE data

JsonBody(v) == [kind |-> "json", v |-> v, raw |-> <<>>]
TextBody(raw) == [kind |-> "text", v |-> JNull, raw |-> raw]
BytesBody == [kind |-> "bytes", v |-> JNull, raw |-> <<>>]

\* ---------------------------------------------------------------- state
VARIABLES
    sessions,   \* chat_sessions: id -> row
    messages,   \* chat_messages: id -> row
    clis,       \* clis: id -> row
    ids,        \* primary keys handed out so far, per table (uuid4 never repeats)
    webhook,    \* whether N8N_WEBHOOK_URL is set (read once at import)
    req,        \* the requests being handled: slot -> handler frame
    tasks       \* detached trigger_n8n tasks not yet run

vars == <<sessions, messages, clis, ids, webhook, req, tasks>>

Slots == 1..MaxReq

\* NULL of a String column / an omitted request field
Null == "<null>"
Absent == "<absent>"
DefaultPath == "/home/niceiyke"

\* A NULL external_session_id is the empty text (a stored one is never empty:
\* only a truthy "session-id" is stored, and str() of a truthy value is non-empty)
NoExt == <<>>

NoSession == [id |-> 0, title |-> Null, cli_id |-> 0, path |-> "", external_session_id |-> NoExt, created_at |-> 0]
NoMessage == [id |-> 0, session_id |-> 0, role |-> "", content |-> <<>>, created_at |-> 0]
NoSessionIn == [title |-> Null, cli_id |-> 0, path |-> ""]
NoJson == [title |-> Absent, cli_id |-> 0, path |-> Absent]
NoBody == [kind |-> "none", v |-> JNull, raw |-> <<>>]
NoRet == [kind |-> "none", session |-> NoSession, message |-> NoMessage]

\* models/chat.py: the rows, with their primary key alongside
\* datetime.utcnow() at an insert into a table, as the number of rows inserted
\* into that table before it (time is kept per table: no row is compared with
\* a row of another table)
Now(table) == ids[table]

SessionRow(id) == [id |-> id] @@ sessions[id]
MessageRow(id) == [id |-> id] @@ messages[id]

Idle ==
    [op |-> "idle", pc |-> "idle", sid |-> 0, mid |-> 0, cid |-> 0,
     json |-> NoJson, session_in |-> NoSessionIn, content |-> <<>>, body |-> NoBody,
     data |-> JNull, session |-> NoSession, message |-> NoMessage,
     is_resume |-> FALSE, cli_name |-> "", loaded |-> {},
     status |-> 0, ret |-> NoRet]

\* schemas/chat.py 60-67: SessionCreate parsed from a request body; an omitted
\* field takes the schema's default
SessionCreate(body) ==
    [title |-> IF body.title = Absent THEN Null ELSE body.title,
     cli_id |-> body.cli_id,
     path |-> IF body.path = Absent THEN DefaultPath ELSE body.path]

\* truthiness of an Optional[str] / str field
StrTruthy(x) == x # Null /\ x # ""

\* ---------------------------------------------------------------- inputs
CliInputs == 0..MaxCLIs
CliNames == {"claude"}
Prompts == {<<"Hi">>}

\* callback bodies: an object, an array of one object, an object with an empty
\* "session-id", an array of a string, undecodable bytes
ObjectBody == JsonBody(JObj(<<Member("output", JStr(<<"I will", "\n", "Hello">>)),
                              Member("session-id", JStr(<<"ext-123">>))>>))
ArrayBody == JsonBody(JArr(<<JObj(<<Member("text", JStr(<<"Hello">>)),
                                    Member("session-id", JStr(<<"ext-456">>))>>)>>))
EmptyIdBody == JsonBody(JObj(<<Member("message", JStr(<<"Hello">>)), Member("session-id", JStr(<<>>))>>))
StringBody == JsonBody(JStr(<<"Hello">>))

\* the values of a payload member
Vals ==
    {JStr(<<>>), JStr(<<"Hello">>), JStr(<<"Hi">>), JNum(0), JNum(7), JNull, JBool(FALSE),
     JObj(<<>>), JObj(<<Member("response", JStr(<<"Hello">>))>>), JArr(<<>>)}
\* the values of a whole body, or of an array's element
BodyVals == Vals \cup {JBool(TRUE)}
Keys == {"output", "text", "response", "content", "message", "session-id", "k"}
Members == {Member(k, v) : k \in Keys, v \in Vals}
MaxMembers == 2
DistinctKeys(ms) == \A i, j \in 1..Len(ms) : i # j => ms[i].k # ms[j].k

\* bodies that are not an object: arrays, other JSON values, text that is not
\* JSON, bytes that are not text
OtherBodies ==
    {JsonBody(JArr(<<v>>)) : v \in BodyVals \cup {JObj(<<m>>) : m \in Members}}
    \cup {JsonBody(v) : v \in BodyVals}
    \cup {TextBody(<<>>), TextBody(<<"Hello">>), TextBody(<<"I'll", " ", "Hi", "\n", "Hello">>), BytesBody}

\* ---------------------------------------------------------------- frames
Set(r, frame) == req' = [req EXCEPT ![r] = frame]

\* the handler returns (status 200) or raises (404: HTTPException, 500: any other)
Return(r, status, ret) ==
    Set(r, [Idle EXCEPT !.op = req[r].op, !.pc = "done", !.sid = req[r].sid,
                        !.mid = req[r].mid, !.cid = req[r].cid,
                        !.json = req[r].json,
                        !.session_in = req[r].session_in, !.content = req[r].content,
                        !.body = req[r].body, !.status = status, !.ret = ret])

At(r, op, pc) == req[r].op = op /\ req[r].pc = pc

SessionRet(id) == [NoRet EXCEPT !.kind = "session", !.session = SessionRow(id)]
MessageRet(id) == [NoRet EXCEPT !.kind = "message", !.message = MessageRow(id)]
StatusRet == [NoRet EXCEPT !.kind = "status"]

Init ==
    /\ sessions = <<>>
    /\ messages = <<>>
    /\ clis = <<>>
    /\ ids = [session |-> 0, message |-> 0, cli |-> 0]
    /\ webhook \in BOOLEAN
    /\ req = [r \in Slots |-> Idle]
    /\ tasks = {}

\* the client reads the response; the slot is free again
Finish(r) ==
    /\ req[r].pc = "done"
    /\ Set(r, Idle)
    /\ UNCHANGED <<sessions, messages, clis, ids, webhook, tasks>>

\* ---------------------------------------------------------------- create_session
CreateSessionStart(r, body) ==
    /\ req[r].op = "idle"
    /\ ids.session + Cardinality({q \in Slots : At(q, "create_session", "commit")}) < MaxSessions
    /\ Set(r, [Idle EXCEPT !.op = "create_session", !.pc = "commit", !.json = body,
                           !.session_in = SessionCreate(body)])
    /\ UNCHANGED <<sessions, messages, clis, ids, webhook, tasks>>

\* chat.py 20-26: INSERT; the cli_id foreign key is checked
CreateSessionCommit(r) ==
    /\ At(r, "create_session", "commit")
    /\ LET in == req[r].session_in
           id == ids.session + 1
       IN  IF in.cli_id # 0 /\ in.cli_id \notin DOMAIN clis
           THEN /\ Return(r, 500, NoRet)
                /\ UNCHANGED <<sessions, ids>>
           ELSE /\ ids.session < MaxSessions
                /\ sessions' = (id :> [title |-> in.title, cli_id |-> in.cli_id, path |-> in.path,
                                       external_session_id |-> NoExt, created_at |-> Now("session")]) @@ sessions
                /\ ids' = [ids EXCEPT !.session = id]
                /\ Set(r, [req[r] EXCEPT !.pc = "refresh", !.sid = id])
    /\ UNCHANGED <<messages, clis, webhook, tasks>>

\* chat.py 27-28: refresh re-reads the row
CreateSessionRefresh(r) ==
    /\ At(r, "create_session", "refresh")
    /\ IF req[r].sid \in DOMAIN sessions
       THEN Return(r, 200, SessionRet(req[r].sid))
       ELSE Return(r, 500, NoRet)
    /\ UNCHANGED <<sessions, messages, clis, ids, webhook, tasks>>

\* ---------------------------------------------------------------- send_message
SendMessageStart(r, sid, content) ==
    /\ req[r].op = "idle"
    /\ ids.message + 2 * Cardinality({q \in Slots : req[q].op = "send_message" /\ req[q].pc \in {"select", "count", "cli", "commit"}}) + 2 <= MaxMessages
    /\ Set(r, [Idle EXCEPT !.op = "send_message", !.pc = "select", !.sid = sid, !.content = content])
    /\ UNCHANGED <<sessions, messages, clis, ids, webhook, tasks>>

\* chat.py 73-76
SendMessageSelect(r) ==
    /\ At(r, "send_message", "select")
    /\ IF req[r].sid \in DOMAIN sessions
       THEN Set(r, [req[r] EXCEPT !.pc = "count", !.session = SessionRow(req[r].sid)])
       ELSE Return(r, 404, NoRet)
    /\ UNCHANGED <<sessions, messages, clis, ids, webhook, tasks>>

\* chat.py 79-87
SendMessageCount(r) ==
    /\ At(r, "send_message", "count")
    /\ LET ai_msg_count == Cardinality({m \in DOMAIN messages :
                               messages[m].session_id = req[r].sid /\ messages[m].role = "ai"})
       IN  Set(r, [req[r] EXCEPT !.pc = IF req[r].session.cli_id # 0 THEN "cli" ELSE "commit",
                                 !.is_resume = ai_msg_count > 0, !.cli_name = "default"])
    /\ UNCHANGED <<sessions, messages, clis, ids, webhook, tasks>>

\* chat.py 88-91
SendMessageCli(r) ==
    /\ At(r, "send_message", "cli")
    /\ LET c == req[r].session.cli_id
       IN  Set(r, [req[r] EXCEPT !.pc = "commit",
                                 !.cli_name = IF c \in DOMAIN clis THEN clis[c].name ELSE "default"])
    /\ UNCHANGED <<sessions, messages, clis, ids, webhook, tasks>>

\* chat.py 98: the placeholder
Placeholder_Blank(sid) ==
    [session_id |-> sid, role |-> "ai", content |-> <<>>, created_at |-> Now("message")]

Placeholder(sid) ==
    [session_id |-> sid, role |-> "ai", content |-> Thinking, created_at |-> Now("message")]

\* chat.py 94-101: INSERT both rows; the session_id foreign key is checked
SendMessageCommit(r) ==
    /\ At(r, "send_message", "commit")
    /\ LET sid == req[r].sid
           user_id == ids.message + 1
           ai_id == ids.message + 2
       IN  IF sid \notin DOMAIN sessions
           THEN /\ Return(r, 500, NoRet)
                /\ UNCHANGED <<messages, ids>>
           ELSE /\ ids.message + 2 <= MaxMessages
                /\ messages' = (user_id :> [session_id |-> sid, role |-> "user",
                                            content |-> req[r].content, created_at |-> Now("message")])
                               @@ (ai_id :> Placeholder(sid))
                               @@ messages
                /\ ids' = [ids EXCEPT !.message = ai_id]
                /\ Set(r, [req[r] EXCEPT !.pc = "refresh", !.mid = ai_id])
    /\ UNCHANGED <<sessions, clis, webhook, tasks>>

\* chat.py 109-120: the payload trigger_n8n builds from the handler's locals
TriggerPayload(frame) ==
    [clitype |-> frame.cli_name, session_id |-> frame.sid, prompt |-> frame.content,
     is_resume |-> frame.is_resume, path |-> frame.session.path, callback |-> frame.mid,
     external_session_id |-> frame.session.external_session_id]

\* chat.py 102-130: refresh ai_msg, detach the trigger task, return the placeholder
SendMessageRefresh(r) ==
    /\ At(r, "send_message", "refresh")
    /\ IF req[r].mid \in DOMAIN messages
       THEN /\ Return(r, 200, MessageRet(req[r].mid))
            /\ tasks' = IF webhook THEN tasks \cup {TriggerPayload(req[r])} ELSE tasks
       ELSE /\ Return(r, 500, NoRet)
            /\ UNCHANGED tasks
    /\ UNCHANGED <<sessions, messages, clis, ids, webhook>>

DispatchOutcomes == {"posted", "network_error", "timeout"}

\* chat.py 106-125: the detached task posts the payload; a failure or a timeout
\* of the post is caught and printed
TriggerN8n(payload, outcome) ==
    /\ payload \in tasks
    /\ tasks' = tasks \ {payload}
    /\ outcome \in DispatchOutcomes
    /\ UNCHANGED <<sessions, messages, clis, ids, webhook, req>>


\* ---------------------------------------------------------------- n8n_callback
CallbackStart(r, mid, body) ==
    /\ req[r].op = "idle"
    /\ Set(r, [Idle EXCEPT !.op = "n8n_callback", !.pc = "parse", !.mid = mid, !.body = body])
    /\ UNCHANGED <<sessions, messages, clis, ids, webhook, tasks>>

\* chat.py 136-149: read the body, normalise a list
CallbackParse(r) ==
    /\ At(r, "n8n_callback", "parse")
    /\ IF ParseRaises(req[r].body)
       THEN Return(r, 500, NoRet)
       ELSE Set(r, [req[r] EXCEPT !.pc = "select", !.data = ParseBody(req[r].body)])
    /\ UNCHANGED <<sessions, messages, clis, ids, webhook, tasks>>

\* chat.py 160-161: if external_session_id
CarriesSessionId_Present(data) == HasKey(data, "session-id")

CarriesSessionId(data) == Truthy(Get(data, "session-id"))

\* chat.py 151-161: look the message up; data.get raises on anything but a dict
CallbackSelect(r) ==
    /\ At(r, "n8n_callback", "select")
    /\ IF req[r].mid \notin DOMAIN messages
       THEN Return(r, 404, NoRet)
       ELSE IF req[r].data.t # "obj"
       THEN Return(r, 500, NoRet)
       ELSE Set(r, [req[r] EXCEPT !.message = MessageRow(req[r].mid),
                                 !.pc = IF CarriesSessionId(req[r].data)
                                        THEN "session" ELSE "commit"])
    /\ UNCHANGED <<sessions, messages, clis, ids, webhook, tasks>>

\* chat.py 163-166: the session owning the message
CallbackSession(r) ==
    /\ At(r, "n8n_callback", "session")
    /\ LET sid == req[r].message.session_id
       IN  Set(r, [req[r] EXCEPT !.pc = "commit",
                                 !.session = IF sid \in DOMAIN sessions THEN SessionRow(sid) ELSE NoSession])
    /\ UNCHANGED <<sessions, messages, clis, ids, webhook, tasks>>

\* The flush of a commit writes an attribute only when its value differs from
\* the one loaded (SQLAlchemy's attribute history); an UPDATE that matches no
\* row raises StaleDataError.
Changed(new, loaded) == new # loaded

\* chat.py 151-152: the message the callback writes is the one of the URL
Target_Session(f) == {m \in DOMAIN messages : messages[m].session_id = f.message.session_id}

Target(f) == {f.mid}

\* chat.py 167-198: set the attributes, commit
CallbackCommit(r) ==
    /\ At(r, "n8n_callback", "commit")
    /\ LET f == req[r]
           content == ResolveContent(f.data)
           external_session_id == PyStr(Get(f.data, "session-id"))
           writeMessage == Changed(content, f.message.content)
           writeSession == /\ CarriesSessionId(f.data)
                           /\ f.session.id # 0
                           /\ Changed(external_session_id, f.session.external_session_id)
           stale == \/ writeMessage /\ f.mid \notin DOMAIN messages
                    \/ writeSession /\ f.session.id \notin DOMAIN sessions
       IN  IF stale
           THEN /\ Return(r, 500, NoRet)
                /\ UNCHANGED <<sessions, messages>>
           ELSE /\ messages' = IF writeMessage
                               THEN [m \in DOMAIN messages |->
                                       IF m \in Target(f) THEN [messages[m] EXCEPT !.content = content]
                                       ELSE messages[m]]
                               ELSE messages
                /\ sessions' = IF writeSession
                               THEN [sessions EXCEPT ![f.session.id].external_session_id = external_session_id]
                               ELSE sessions
                /\ Return(r, 200, StatusRet)
    /\ UNCHANGED <<clis, ids, webhook, tasks>>

\* ---------------------------------------------------------------- update_session
UpdateSessionStart(r, sid, body) ==
    /\ req[r].op = "idle"
    /\ Set(r, [Idle EXCEPT !.op = "update_session", !.pc = "select", !.sid = sid,
                           !.json = body, !.session_in = SessionCreate(body)])
    /\ UNCHANGED <<sessions, messages, clis, ids, webhook, tasks>>

\* chat.py 202-205
UpdateSessionSelect(r) ==
    /\ At(r, "update_session", "select")
    /\ IF req[r].sid \in DOMAIN sessions
       THEN Set(r, [req[r] EXCEPT !.pc = "commit", !.session = SessionRow(req[r].sid)])
       ELSE Return(r, 404, NoRet)
    /\ UNCHANGED <<sessions, messages, clis, ids, webhook, tasks>>

\* chat.py 207-212: the attributes of the loaded session after the three ifs
Patched(session, in) ==
    [session EXCEPT !.title = IF StrTruthy(in.title) THEN in.title ELSE @,
                    !.cli_id = IF in.cli_id # 0 THEN in.cli_id ELSE @,
                    !.path = IF StrTruthy(in.path) THEN in.path ELSE @]

\* chat.py 207-214: UPDATE the changed columns; the cli_id foreign key is checked
UpdateSessionCommit(r) ==
    /\ At(r, "update_session", "commit")
    /\ LET old == req[r].session
           new == Patched(old, req[r].session_in)
           sid == req[r].sid
           dirty == new # old
           stale == dirty /\ sid \notin DOMAIN sessions
           badKey == Changed(new.cli_id, old.cli_id) /\ new.cli_id \notin DOMAIN clis
       IN  IF stale \/ badKey
           THEN /\ Return(r, 500, NoRet)
                /\ UNCHANGED sessions
           ELSE /\ sessions' = IF dirty
                               THEN [sessions EXCEPT
                                       ![sid].title = IF Changed(new.title, old.title) THEN new.title ELSE @,
                                       ![sid].cli_id = IF Changed(new.cli_id, old.cli_id) THEN new.cli_id ELSE @,
                                       ![sid].path = IF Changed(new.path, old.path) THEN new.path ELSE @]
                               ELSE sessions
                /\ Set(r, [req[r] EXCEPT !.pc = "refresh"])
    /\ UNCHANGED <<messages, clis, ids, webhook, tasks>>

\* chat.py 215-216
UpdateSessionRefresh(r) ==
    /\ At(r, "update_session", "refresh")
    /\ IF req[r].sid \in DOMAIN sessions
       THEN Return(r, 200, SessionRet(req[r].sid))
       ELSE Return(r, 500, NoRet)
    /\ UNCHANGED <<sessions, messages, clis, ids, webhook, tasks>>

\* ---------------------------------------------------------------- delete_session
DeleteSessionStart(r, sid) ==
    /\ req[r].op = "idle"
    /\ Set(r, [Idle EXCEPT !.op = "delete_session", !.pc = "select", !.sid = sid])
    /\ UNCHANGED <<sessions, messages, clis, ids, webhook, tasks>>

\* chat.py 220-223
DeleteSessionSelect(r) ==
    /\ At(r, "delete_session", "select")
    /\ IF req[r].sid \in DOMAIN sessions
       THEN Set(r, [req[r] EXCEPT !.pc = "delete"])
       ELSE Return(r, 404, NoRet)
    /\ UNCHANGED <<sessions, messages, clis, ids, webhook, tasks>>

\* chat.py 225, models/chat.py 29: db.delete loads session.messages for the
\* "all, delete-orphan" cascade
DeleteSessionDelete(r) ==
    /\ At(r, "delete_session", "delete")
    /\ Set(r, [req[r] EXCEPT !.pc = "commit",
                             !.loaded = {m \in DOMAIN messages : messages[m].session_id = req[r].sid}])
    /\ UNCHANGED <<sessions, messages, clis, ids, webhook, tasks>>

Without(f, gone) == [x \in DOMAIN f \ gone |-> f[x]]

\* models/chat.py 35: the rows whose session_id foreign key references sid,
\* other than those of gone
Referencing_Unchecked(sid, gone) == {}

Referencing(sid, gone) == {m \in DOMAIN messages \ gone : messages[m].session_id = sid}

\* chat.py 226-227, models/chat.py 35: DELETE the loaded messages, then the
\* session; a message row still referencing it violates the foreign key
DeleteSessionCommit(r) ==
    /\ At(r, "delete_session", "commit")
    /\ LET sid == req[r].sid
           rest == Referencing(sid, req[r].loaded)
       IN  IF sid \in DOMAIN sessions /\ rest # {}
           THEN /\ Return(r, 500, NoRet)
                /\ UNCHANGED <<sessions, messages>>
           ELSE /\ messages' = Without(messages, req[r].loaded)
                /\ sessions' = Without(sessions, {sid})
                /\ Return(r, 200, StatusRet)
    /\ UNCHANGED <<clis, ids, webhook, tasks>>

\* ---------------------------------------------------------------- cli.py
CreateCliStart(r, name) ==
    /\ req[r].op = "idle"
    /\ ids.cli + Cardinality({q \in Slots : At(q, "create_cli", "commit")}) < MaxCLIs
    /\ Set(r, [Idle EXCEPT !.op = "create_cli", !.pc = "commit", !.cli_name = name])
    /\ UNCHANGED <<sessions, messages, clis, ids, webhook, tasks>>

\* cli.py 13-15
CreateCliCommit(r) ==
    /\ At(r, "create_cli", "commit")
    /\ ids.cli < MaxCLIs
    /\ clis' = ((ids.cli + 1) :> [name |-> req[r].cli_name, created_at |-> Now("cli")]) @@ clis
    /\ ids' = [ids EXCEPT !.cli = @ + 1]
    /\ Set(r, [req[r] EXCEPT !.pc = "refresh", !.cid = ids.cli + 1])
    /\ UNCHANGED <<sessions, messages, webhook, tasks>>

\* cli.py 16-17
CreateCliRefresh(r) ==
    /\ At(r, "create_cli", "refresh")
    /\ IF req[r].cid \in DOMAIN clis
       THEN Return(r, 200, [NoRet EXCEPT !.kind = "cli"])
       ELSE Return(r, 500, NoRet)
    /\ UNCHANGED <<sessions, messages, clis, ids, webhook, tasks>>

DeleteCliStart(r, cid) ==
    /\ req[r].op = "idle"
    /\ Set(r, [Idle EXCEPT !.op = "delete_cli", !.pc = "select", !.cid = cid])
    /\ UNCHANGED <<sessions, messages, clis, ids, webhook, tasks>>

\* cli.py 34-37
DeleteCliSelect(r) ==
    /\ At(r, "delete_cli", "select")
    /\ IF req[r].cid \in DOMAIN clis
       THEN Set(r, [req[r] EXCEPT !.pc = "delete"])
       ELSE Return(r, 404, NoRet)
    /\ UNCHANGED <<sessions, messages, clis, ids, webhook, tasks>>

\* cli.py 38, models/chat.py 16: db.delete loads cli.sessions (no delete cascade:
\* the sessions are to be detached)
DeleteCliDelete(r) ==
    /\ At(r, "delete_cli", "delete")
    /\ Set(r, [req[r] EXCEPT !.pc = "commit",
                             !.loaded = {s \in DOMAIN sessions : sessions[s].cli_id = req[r].cid}])
    /\ UNCHANGED <<sessions, messages, clis, ids, webhook, tasks>>

\* cli.py 39-40, models/chat.py 23: UPDATE the loaded sessions' cli_id to NULL,
\* DELETE the profile; a session row still referencing it violates the foreign key
DeleteCliCommit(r) ==
    /\ At(r, "delete_cli", "commit")
    /\ LET cid == req[r].cid
           stale == req[r].loaded \ DOMAIN sessions
           rest == {s \in DOMAIN sessions \ req[r].loaded : sessions[s].cli_id = cid}
       IN  IF stale # {} \/ (cid \in DOMAIN clis /\ rest # {})
           THEN /\ Return(r, 500, NoRet)
                /\ UNCHANGED <<sessions, clis>>
           ELSE /\ sessions' = [s \in DOMAIN sessions |->
                                   IF s \in req[r].loaded THEN [sessions[s] EXCEPT !.cli_id = 0]
                                   ELSE sessions[s]]
                /\ clis' = Without(clis, {cid})
                /\ Return(r, 200, StatusRet)
    /\ UNCHANGED <<messages, ids, webhook, tasks>>

\* ---------------------------------------------------------------- specification
\* The requests of one slot; P gives the sets the request inputs are drawn from.
CreateSession(r, P) ==
    \/ \E body \in P.sessionBodies : CreateSessionStart(r, body)
    \/ CreateSessionCommit(r)
    \/ CreateSessionRefresh(r)

SendMessage(r, P) ==
    \/ \E sid \in 1..MaxSessions, content \in P.prompts : SendMessageStart(r, sid, content)
    \/ SendMessageSelect(r)
    \/ SendMessageCount(r)
    \/ SendMessageCli(r)
    \/ SendMessageCommit(r)
    \/ SendMessageRefresh(r)

Callback(r, P) ==
    \/ \E mid \in 1..MaxMessages, body \in P.callbackBodies : CallbackStart(r, mid, body)
    \/ CallbackParse(r)
    \/ CallbackSelect(r)
    \/ CallbackSession(r)
    \/ CallbackCommit(r)

UpdateSession(r, P) ==
    \/ \E sid \in 1..MaxSessions, body \in P.patchBodies : UpdateSessionStart(r, sid, body)
    \/ UpdateSessionSelect(r)
    \/ UpdateSessionCommit(r)
    \/ UpdateSessionRefresh(r)

DeleteSession(r) ==
    \/ \E sid \in 1..MaxSessions : DeleteSessionStart(r, sid)
    \/ DeleteSessionSelect(r)
    \/ DeleteSessionDelete(r)
    \/ DeleteSessionCommit(r)

CreateCli(r) ==
    \/ \E name \in CliNames : CreateCliStart(r, name)
    \/ CreateCliCommit(r)
    \/ CreateCliRefresh(r)

DeleteCli(r) ==
    \/ \E cid \in 1..MaxCLIs : DeleteCliStart(r, cid)
    \/ DeleteCliSelect(r)
    \/ DeleteCliDelete(r)
    \/ DeleteCliCommit(r)

Background == \E payload \in tasks, outcome \in DispatchOutcomes : TriggerN8n(payload, outcome)

\* Requests handled one at a time: every endpoint.
SeqInputs ==
    [sessionBodies |-> [title : {Absent}, cli_id : CliInputs, path : {Absent}],
     patchBodies |-> [title : {Absent}, cli_id : CliInputs, path : {Absent}],
     prompts |-> Prompts,
     callbackBodies |-> {ObjectBody, ArrayBody, EmptyIdBody, BytesBody}]

Next ==
    \/ CreateSession(1, SeqInputs)
    \/ SendMessage(1, SeqInputs)
    \/ Callback(1, SeqInputs)
    \/ UpdateSession(1, SeqInputs)
    \/ DeleteSession(1)
    \/ CreateCli(1)
    \/ DeleteCli(1)
    \/ Finish(1)
    \/ Background

Spec == Init /\ [][Next]_vars

\* Requests handled concurrently, interleaved at their await points: sessions
\* created and deleted, messages sent, callbacks delivered.
ConcInputs ==
    [sessionBodies |-> [title : {Absent}, cli_id : {0}, path : {Absent}],
     prompts |-> Prompts,
     callbackBodies |-> {ObjectBody, StringBody}]

StepConc(r) ==
    \/ CreateSession(r, ConcInputs)
    \/ \E sid \in 1..MaxSessions, content \in ConcInputs.prompts : SendMessageStart(r, sid, content)
    \/ SendMessageSelect(r)
    \/ SendMessageCount(r)
    \/ SendMessageCommit(r)
    \/ SendMessageRefresh(r)
    \/ Callback(r, ConcInputs)
    \/ DeleteSession(r)
    \/ Finish(r)

NextConc == \E r \in Slots : StepConc(r)

\* no webhook is configured: nothing is dispatched
InitConc == Init /\ ~webhook

SpecConc == InitConc /\ [][NextConc]_vars

\* One callback, of any shape, to a session that has had one exchange.
\* the callback to message mid with this body has been received
Received(mid, body) ==
    [r \in Slots |-> IF r = 1
                     THEN [Idle EXCEPT !.op = "n8n_callback", !.pc = "parse",
                                       !.mid = mid, !.body = body]
                     ELSE Idle]

InitResolve ==
    /\ sessions = (1 :> [title |-> Null, cli_id |-> 0, path |-> DefaultPath,
                         external_session_id |-> NoExt, created_at |-> 0])
    /\ messages = (1 :> [session_id |-> 1, role |-> "user", content |-> <<"Hi">>, created_at |-> 0])
                  @@ (2 :> [session_id |-> 1, role |-> "ai", content |-> Thinking, created_at |-> 0])
    /\ clis = <<>>
    /\ ids = [session |-> 1, message |-> 2, cli |-> 0]
    /\ webhook = FALSE
    /\ tasks = {}
    /\ \E mid \in 1..3 :
          \/ \E t \in TextsUpTo(MaxLen) :
                req = Received(mid, JsonBody(JObj(<<Member("output", JStr(t))>>)))
          \/ \E n \in 0..MaxMembers : \E ms \in [1..n -> Members] :
                DistinctKeys(ms) /\ req = Received(mid, JsonBody(JObj(ms)))
          \/ \E body \in OtherBodies : req = Received(mid, body)

NextResolve ==
    \/ CallbackParse(1)
    \/ CallbackSelect(1)
    \/ CallbackSession(1)
    \/ CallbackCommit(1)

SpecResolve == InitResolve /\ [][NextResolve]_vars

\* PATCH requests to a session that has had one exchange.
PatchInputs ==
    [patchBodies |-> [title : {Absent, "", "T"}, cli_id : CliInputs, path : {Absent, "", "/w"}]]

InitPatch ==
    /\ clis \in {<<>>, (1 :> [name |-> "claude", created_at |-> 0])}
    /\ \E title \in {Null, "", "T0"}, path \in {DefaultPath, "", "/w0"},
          cli_id \in {0} \cup DOMAIN clis, ext \in {NoExt, <<"ext-123">>} :
          sessions = (1 :> [title |-> title, cli_id |-> cli_id, path |-> path,
                            external_session_id |-> ext, created_at |-> 0])
    /\ messages = (1 :> [session_id |-> 1, role |-> "user", content |-> <<"Hi">>, created_at |-> 0])
                  @@ (2 :> [session_id |-> 1, role |-> "ai",
                            content |-> IF sessions[1].external_session_id = NoExt
                                        THEN Thinking ELSE <<"Hello">>,
                            created_at |-> 0])
    /\ ids = [session |-> 1, message |-> 2, cli |-> IF clis = <<>> THEN 0 ELSE 1]
    /\ webhook = FALSE
    /\ tasks = {}
    /\ req = [r \in Slots |-> Idle]

NextPatch == UpdateSession(1, PatchInputs) \/ Finish(1)

SpecPatch == InitPatch /\ [][NextPatch]_vars

\* ---------------------------------------------------------------- properties
\* r takes a step
Steps(r) == req'[r] # req[r]

\* r's handler ends in this step
Ends(r, op) == req[r].op = op /\ req[r].pc # "done" /\ req'[r].pc = "done"

\* r's send_message commits its two rows in this step
SendCommits(r) == At(r, "send_message", "commit") /\ req'[r].pc = "refresh"

\* the n8n trigger task runs in this step
Dispatches == tasks' # tasks /\ tasks' \subseteq tasks

\* C1: a send_message on an existing session adds exactly two messages of that
\* session, the posted content as "user" and "Thinking..." as "ai", whatever
\* the dispatch does, and returns the "ai" one; on a missing session it ends
\* in 404 and adds nothing.
C1_SendMessageAddsTwo ==
    [][\A r \in Slots :
        /\ SendCommits(r) =>
              LET new == DOMAIN messages' \ DOMAIN messages
                  ai == req'[r].mid
              IN  /\ req[r].sid \in DOMAIN sessions
                  /\ Cardinality(new) = 2
                  /\ ai \in new
                  /\ \A m \in DOMAIN messages : m \in DOMAIN messages' /\ messages'[m] = messages[m]
                  /\ \A m \in new : messages'[m].session_id = req[r].sid
                  /\ messages'[ai].role = "ai"
                  /\ messages'[ai].content = <<"Thinking...">>
                  /\ \A m \in new \ {ai} : /\ messages'[m].role = "user"
                                           /\ messages'[m].content = req[r].content
        /\ (req[r].op = "send_message" /\ ~SendCommits(r)) => messages' = messages
        /\ (Ends(r, "send_message") /\ req'[r].status = 200) =>
              /\ req[r].pc = "refresh"
              /\ req'[r].ret.kind = "message"
              /\ req'[r].ret.message = [id |-> req[r].mid] @@ messages[req[r].mid]
              /\ req'[r].ret.message.role = "ai"
              /\ req'[r].ret.message.content = <<"Thinking...">>
        /\ (At(r, "send_message", "select") /\ Steps(r) /\ req[r].sid \notin DOMAIN sessions) =>
              req'[r].pc = "done" /\ req'[r].status = 404
        /\ Dispatches => messages' = messages
    ]_vars

\* a second exchange has been posted and answered with the placeholder, and
\* every dispatch has run
C1_Witness ==
    /\ req[1].op = "send_message" /\ req[1].pc = "done" /\ req[1].status = 200
    /\ req[1].ret.message.content = <<"Thinking...">>
    /\ Cardinality(DOMAIN messages) = 4
    /\ webhook /\ tasks = {}

\* C2: a callback to a message id that is not stored ends in 404, whatever its
\* body, and changes no message and no session.
C2_MissingMessageNotFound ==
    [][\A r \in Slots :
        (Ends(r, "n8n_callback") /\ req[r].mid \notin DOMAIN messages) =>
            /\ req'[r].status = 404
            /\ UNCHANGED <<sessions, messages>>
    ]_vars

\* C3: a callback to a stored message id is acknowledged (200) for every body.
C3_AlwaysAcknowledged ==
    \A r \in Slots :
        (req[r].op = "n8n_callback" /\ req[r].pc = "done" /\ req[r].mid \in DOMAIN messages) =>
            req[r].status = 200

\* C4: every stored message refers to a stored session, and after a successful
\* delete_session(s) neither s nor a message of s is stored.
C4_NoOrphans ==
    /\ \A m \in DOMAIN messages :
          messages[m].session_id # 0 /\ messages[m].session_id \in DOMAIN sessions
    /\ \A r \in Slots :
          (req[r].op = "delete_session" /\ req[r].pc = "done" /\ req[r].status = 200) =>
              /\ req[r].sid \notin DOMAIN sessions
              /\ \A m \in DOMAIN messages : messages[m].session_id # req[r].sid

\* a session that had an exchange has been deleted, another exchange remains
C4_Witness ==
    /\ \E r \in Slots : req[r].op = "delete_session" /\ req[r].pc = "done" /\ req[r].status = 200
    /\ ids.message = 4
    /\ Cardinality(DOMAIN messages) = 2

\* C9: a step changes the content of a stored message only if it is the commit
\* of an accepted callback addressed to that message's id, and no step changes
\* a stored message's role, session or creation time.
C9_OnlyOwnCallbackWrites ==
    [][\A m \in DOMAIN messages \cap DOMAIN messages' :
        /\ messages'[m].role = messages[m].role
        /\ messages'[m].session_id = messages[m].session_id
        /\ messages'[m].created_at = messages[m].created_at
        /\ messages'[m].content # messages[m].content =>
              \E r \in Slots : /\ At(r, "n8n_callback", "commit")
                               /\ req[r].mid = m
                               /\ req'[r].pc = "done" /\ req'[r].status = 200
    ]_vars

\* the first placeholder is resolved, its user message and the second exchange
\* are untouched, and every dispatch has run
C9_Witness ==
    /\ DOMAIN messages = 1..4
    /\ messages[1].content = <<"Hi">>
    /\ messages[2].content = <<"Hello">>
    /\ messages[4].content = <<"Thinking...">>
    /\ req[1].op = "n8n_callback" /\ req[1].pc = "done" /\ req[1].mid = 2 /\ req[1].status = 200
    /\ webhook /\ tasks = {}

\* ---- the callback body as the specification reads it
\* the effective payload: the body object, the first element of a non-empty
\* array, nothing for an empty array, the raw text under "output" when the
\* body is not JSON
EffectivePayload(body) ==
    IF body.kind = "json"
    THEN IF body.v.t = "arr"
         THEN IF Len(body.v.m) > 0 THEN body.v.m[1].v ELSE JObj(<<>>)
         ELSE body.v
    ELSE JObj(<<[k |-> "output", v |-> JStr(body.raw)]>>)

\* empty: null, "", {}, [], and the falsy 0 and false
Empty(v) == v \in {JNull, JStr(<<>>), JObj(<<>>), JArr(<<>>), JNum(0), JBool(FALSE)}

ValueOf(payload, key) ==
    IF \E i \in DOMAIN payload.m : payload.m[i].k = key
    THEN payload.m[CHOOSE i \in DOMAIN payload.m : payload.m[i].k = key].v
    ELSE JNull

\* the "session-id" a body carries, when it carries a non-empty one
CarriedId(body) == ValueOf(EffectivePayload(body), "session-id")
Carries(body) == EffectivePayload(body).t = "obj" /\ ~Empty(CarriedId(body))

\* r's callback is accepted in this step
Accepted(r) == At(r, "n8n_callback", "commit") /\ req'[r].pc = "done" /\ req'[r].status = 200

\* C5: a new session has no external correlation id; an accepted callback to a
\* message of session s that carries a "session-id" sets the id of s to it;
\* every other step, and every other callback, leaves the id of s as it was.
C5_LastCarriedIdWins ==
    [][\A s \in DOMAIN sessions' :
        IF s \notin DOMAIN sessions
        THEN sessions'[s].external_session_id = <<>>
        ELSE LET writers == {r \in Slots : /\ Accepted(r)
                                           /\ req[r].mid \in DOMAIN messages
                                           /\ messages[req[r].mid].session_id = s
                                           /\ Carries(req[r].body)}
             IN  IF writers # {}
                 THEN \E r \in writers :
                         sessions'[s].external_session_id = PyStr(CarriedId(req[r].body))
                 ELSE sessions'[s].external_session_id = sessions[s].external_session_id
    ]_vars

\* session 1 holds the id of a later callback, a callback without one has
\* just been accepted for it, and session 2 has none
C5_Witness ==
    /\ DOMAIN sessions = {1, 2}
    /\ sessions[1].external_session_id = <<"ext-456">>
    /\ sessions[2].external_session_id = <<>>
    /\ req[1].op = "n8n_callback" /\ req[1].pc = "done" /\ req[1].status = 200
    /\ req[1].body = EmptyIdBody
    /\ req[1].mid \in DOMAIN messages /\ messages[req[1].mid].session_id = 1

\* C6: a PATCH overwrites title, cli_id and path exactly where the request
\* supplies a non-empty value and keeps every other field, the id, the creation
\* time, the external correlation id and the messages; on a missing session it
\* ends in 404 and changes nothing.
PatchCommits(r) == At(r, "update_session", "commit") /\ req'[r].pc = "refresh"

C6_PartialUpdate ==
    [][\A r \in Slots :
        /\ PatchCommits(r) =>
              LET j == req[r].json
                  old == sessions[req[r].sid]
                  new == sessions'[req[r].sid]
              IN  /\ new.title = IF j.title \notin {Absent, ""} THEN j.title ELSE old.title
                  /\ new.cli_id = IF j.cli_id # 0 THEN j.cli_id ELSE old.cli_id
                  /\ new.path = IF j.path \notin {Absent, ""} THEN j.path ELSE old.path
                  /\ new.created_at = old.created_at
                  /\ new.external_session_id = old.external_session_id
                  /\ DOMAIN sessions' = DOMAIN sessions
                  /\ messages' = messages
        /\ (req[r].op = "update_session" /\ ~PatchCommits(r)) => UNCHANGED <<sessions, messages>>
        /\ (At(r, "update_session", "select") /\ Steps(r) /\ req[r].sid \notin DOMAIN sessions) =>
              req'[r].pc = "done" /\ req'[r].status = 404
    ]_vars

\* ---- C7
ClaimKeys == <<"output", "text", "response", "content", "message">>

\* the positions in ClaimKeys of the keys with a non-empty value
NonEmptyKeys(payload) == {i \in 1..Len(ClaimKeys) : ~Empty(ValueOf(payload, ClaimKeys[i]))}

FirstNonEmpty(payload) ==
    ValueOf(payload, ClaimKeys[CHOOSE i \in NonEmptyKeys(payload) : \A j \in NonEmptyKeys(payload) : i <= j])

\* r's callback to a stored message has been accepted
Resolved(r) ==
    /\ req[r].op = "n8n_callback" /\ req[r].pc = "done" /\ req[r].status = 200
    /\ req[r].mid \in DOMAIN messages

OutputText(r) == req[r].body.v.m[1].v.s

IsOutputText(r) ==
    /\ Resolved(r)
    /\ req[r].body.kind = "json" /\ req[r].body.v.t = "obj"
    /\ Len(req[r].body.v.m) = 1 /\ req[r].body.v.m[1].k = "output"
    /\ req[r].body.v.m[1].v.t = "str" /\ req[r].body.v.m[1].v.s # <<>>

Trim(t) ==
    LET keep == {i \in 1..Len(t) : t[i] \notin {" ", "\n"}}
    IN  IF keep = {} THEN <<>>
        ELSE SubSeq(t, CHOOSE i \in keep : \A j \in keep : i <= j,
                       CHOOSE i \in keep : \A j \in keep : i >= j)

\* a span "{" ... "}" that is a JSON object with a "response" key
IsResponseObject(span) ==
    /\ Len(span) >= 3 /\ span[1] = "{" /\ span[Len(span)] = "}"
    /\ \E i \in 2..(Len(span) - 1) :
          /\ span[i] = RespMember
          /\ \A j \in 2..(Len(span) - 1) : j # i => span[j] \in {" ", "\n"}

\* the text without its lines that begin (after blanks) with "I will" or "I'll"
Unintended(t) ==
    LET lines == SplitLines(t)
        kept == SelectSeq(lines, LAMBDA l : Trim(l) = <<>> \/ Trim(l)[1] \notin {"I will", "I'll"})
    IN  Trim(JoinLines(kept))

Cleaned(t) == IF Unintended(t) # <<>> THEN Unintended(t) ELSE t

\* C8 as stated: if the text contains any brace-delimited span that is a JSON
\* object with a "response" key, the content is that key's value; otherwise
\* it is the text without its intention lines, or the text itself when
\* nothing is left.
C8_AnySpan ==
    \A r \in Slots :
        IsOutputText(r) =>
            LET t == Trim(OutputText(r))
            IN  messages[req[r].mid].content =
                    IF \E i, j \in 1..Len(t) : i < j /\ IsResponseObject(SubSeq(t, i, j))
                    THEN <<"42">>
                    ELSE Cleaned(t)

\* C8 amended: the span is the one from the first "{" to the last "}" of the
\* trimmed text.
C8_FirstToLastSpan ==
    \A r \in Slots :
        IsOutputText(r) =>
            LET t == Trim(OutputText(r))
                opens == {i \in 1..Len(t) : t[i] = "{"}
                closes == {j \in 1..Len(t) : t[j] = "}"}
                i == CHOOSE x \in opens : \A y \in opens : x <= y
                j == CHOOSE x \in closes : \A y \in closes : x >= y
            IN  messages[req[r].mid].content =
                    IF opens # {} /\ closes # {} /\ i < j /\ IsResponseObject(SubSeq(t, i, j))
                    THEN <<"42">>
                    ELSE Cleaned(t)

\* a response object followed by a stray "}": the content is the text
C8_Witness ==
    \E r \in Slots :
        /\ IsOutputText(r)
        /\ OutputText(r) = <<"{", RespMember, "}", "}">>
        /\ messages[req[r].mid].content = <<"{", RespMember, "}", "}">>

\* ---- C10
InFlight(r, mid) ==
    /\ req[r].op = "n8n_callback"
    /\ req[r].pc \notin {"idle", "done"}
    /\ req[r].mid = mid

\* C10: of two callbacks to the same stored message that are handled at the
\* same time, the one that ends first is acknowledged (200) and leaves the
\* message with its resolved content, not the pending "Thinking...".
C10_BothAcknowledged ==
    [][\A r1, r2 \in Slots :
          (/\ r1 # r2
           /\ Ends(r2, "n8n_callback")
           /\ InFlight(r1, req[r2].mid)
           /\ req[r2].mid \in DOMAIN messages) =>
              /\ req'[r2].status = 200
              /\ messages'[req[r2].mid].content # <<"Thinking...">>]_vars
====
